---- MODULE Spec2Model ----
(***************************************************************************)
(* Model of the batch summarization pipeline of arxiv-ai-summaries.        *)
(*                                                                         *)
(* Two orchestrators exist in the repository and both are modelled:        *)
(*   variant = "papers" : summarize_papers.py driving gemini_api.GeminiAPI *)
(*   variant = "geo"    : summarize_geoscience_papers.py (self-contained)  *)
(* Spec runs them on a store whose writes succeed, SpecIO on a store whose *)
(* writes can fail; ClientSpec is GeminiAPI on its own, with any caller.   *)
(*                                                                         *)
(* Text is modelled as a sequence of tokens: the empty string is <<>>, a   *)
(* blank is the token " ", and "Error: " + msg is <<"Error:">> \o msg.     *)
(* The CSV file on disk holds fields (text); the DataFrame in memory holds *)
(* cells (text or NaN).                                                    *)
(***************************************************************************)
EXTENDS Integers, Sequences, FiniteSets, TLC

\* ---------------------------------------------------------------- bounds
MaxRows == 2        \* rows in the store
MaxRuns == 2        \* process executions on the same store
MaxCalls == 5       \* API calls issued by one process execution
Latency == 30       \* duration of one API exchange, seconds

\* ---------------------------------------------------- program constants
MAX_RETRIES == 3
RETRY_DELAY == 120
WAIT_BETWEEN_CALLS == 120

\* ------------------------------------------------------------------ text
None == <<"<None>">>          \* Python None
NaN == <<"<NaN>">>            \* a missing DataFrame cell

Min(a, b) == IF a < b THEN a ELSE b

\* str.strip(): drop leading and trailing blanks
RECURSIVE LStrip(_)
LStrip(t) == IF t # <<>> /\ Head(t) = " " THEN LStrip(Tail(t)) ELSE t
RECURSIVE RStrip(_)
RStrip(t) ==
    IF t # <<>> /\ t[Len(t)] = " " THEN RStrip(SubSeq(t, 1, Len(t) - 1)) ELSE t
Strip(t) == RStrip(LStrip(t))

\* str.startswith(tok)
StartsWith(t, tok) == t # <<>> /\ Head(t) = tok

\* truth value of a returned error message: None and "" are falsy
Truthy(e) == e # None /\ e # <<>>

\* texts the service returns for a summary, before trimming
ResponseTexts == {<<" ", "S", " ">>, <<" ">>}
\* block reasons and messages carried by the service's rejections
BlockReasons == {<<"policy">>}
ExceptionMsgs == {<<"timeout">>, <<>>, <<"FATAL:", "down">>}

Outcomes ==
    {[cls |-> "Success", text |-> t] : t \in ResponseTexts}
    \cup {[cls |-> "Blocked", text |-> r] : r \in BlockReasons}
    \cup {[cls |-> "Quota", text |-> <<"429">>],
          [cls |-> "Invalid", text |-> <<"400">>]}
    \cup {[cls |-> "Transient", text |-> m] : m \in ExceptionMsgs}

Latencies == {Latency}

\* ------------------------------------------------------------ the store
Columns == {"ai_abstract", "ai_summary"}

\* field strings pandas.read_csv turns into NaN
NaValues == {<<>>, <<"N/A">>, <<"NA">>, <<"NaN">>, <<"null">>}

ReadCsvField(f) == IF f \in NaValues THEN NaN ELSE f
ToCsvField(c) == IF c = NaN \/ c = None THEN <<>> ELSE c

\* the file right after open(path, "w"): no header, no rows
Truncated == [empty |-> TRUE, cols |-> {}, rows |-> <<>>]

\* pd.read_csv on a readable file
ReadCsv(d) ==
    [cols |-> d.cols,
     rows |-> [i \in DOMAIN d.rows |->
                 [link |-> d.rows[i].link,
                  ai_abstract |-> ReadCsvField(d.rows[i].ai_abstract)]]]

\* df.to_csv(csv_file, index=False), once the data has reached the file
ToCsv(f) ==
    [empty |-> FALSE,
     cols |-> f.cols,
     rows |-> [i \in DOMAIN f.rows |->
                 [link |-> f.rows[i].link,
                  ai_abstract |-> ToCsvField(f.rows[i].ai_abstract)]]]

\* df[df['ai_abstract'].isna()], as the row positions it keeps, in order
RECURSIVE IsNaRows(_, _)
IsNaRows(f, i) ==
    IF i > Len(f.rows) THEN <<>>
    ELSE (IF f.rows[i].ai_abstract \in {NaN, None} THEN <<i>> ELSE <<>>)
         \o IsNaRows(f, i + 1)

\* df.loc[df['link'] == link, 'ai_abstract'] = value
SetAbstract(f, link, value) ==
    [f EXCEPT !.rows =
        [i \in DOMAIN f.rows |->
            IF f.rows[i].link = link
            THEN [f.rows[i] EXCEPT !.ai_abstract = value]
            ELSE f.rows[i]]]

EmptyFrame == [cols |-> {}, rows |-> <<>>]

\* ------------------------------------------------------- retry and pacing
\* linearly increasing backoff after failed attempt number `attempt`
BackoffFlat(attempt) == RETRY_DELAY
Backoff(attempt) == RETRY_DELAY * (attempt + 1)

\* time _wait_between_calls sleeps, given _last_call_time > 0 and the time
\* elapsed since it
WaitTimeUnstamped(isStamped, elapsed) ==
    IF elapsed < WAIT_BETWEEN_CALLS THEN WAIT_BETWEEN_CALLS - elapsed ELSE 0
WaitTime(isStamped, elapsed) ==
    IF isStamped /\ elapsed < WAIT_BETWEEN_CALLS
    THEN WAIT_BETWEEN_CALLS - elapsed
    ELSE 0

\* elapsed times are tracked up to the pacing interval
Elapse(t, d) == Min(t + d, WAIT_BETWEEN_CALLS)

VARIABLES
    variant,      \* which orchestrator script is executed
    run,          \* number of process executions started so far
    pc,           \* position of the running process
    exitCode,     \* -1 running, 0 / 1 exit status, 137 killed
    how,          \* why the current execution ended
    prev,         \* why the previous execution ended
    resumeAfter,  \* link of the row whose write had just completed when the
                  \* previous execution was killed between two rows, else 0
    disk,         \* the CSV file
    lastGood,     \* the file as the process last read or fully wrote it
    written,      \* links of the rows whose ai_abstract a run has persisted
    df,           \* the DataFrame
    pending,      \* papers_to_summarize, as row positions of df
    loaded,       \* df as it was when papers_to_summarize was selected
    counter,      \* loop counter
    attempt,      \* retry loop index
    result,       \* (summary, error) returned by generate_summary
    afterSave,    \* what follows the to_csv in progress
    stamped,      \* _last_call_time > 0
    sinceStamp,   \* time since _last_call_time
    gap,          \* time since the start of the latest API call
    nCalls,       \* API calls issued by this execution
    lastCall,     \* link of the record of the latest API call, 0 for none
    recCalls,     \* API calls issued for record lastCall by this execution
    recFirst,     \* class of the first outcome for record lastCall
    recAllQuota,  \* every outcome for record lastCall was Quota
    recSleeps,    \* backoff sleeps of the current or latest retry loop
    exhaust,      \* the retry budget that loop exhausted: row, class, message
    ioFailed,     \* a read or write of the file failed in this execution
    prompt,       \* argument of the current or latest generate_summary call
    waited        \* time the latest _wait_between_calls slept

vars == <<variant, run, pc, exitCode, how, prev, resumeAfter, disk, lastGood,
          written, df, pending, loaded, counter, attempt, result, afterSave,
          stamped, sinceStamp, gap, nCalls, lastCall, recCalls, recFirst,
          recAllQuota, recSleeps, exhaust, ioFailed, prompt, waited>>

storeVars == <<disk, lastGood, written>>
memVars == <<df, pending, loaded, counter, attempt, result, afterSave>>
clockVars == <<stamped, sinceStamp, gap>>
callVars == <<nCalls, lastCall, recCalls, recFirst, recAllQuota, recSleeps,
              exhaust>>
clientVars == <<prompt, waited>>
runVars == <<variant, run, prev, resumeAfter>>

\* the prompt the scripts build: the template filled in with a row's fields
Template == <<"Summarize", "paper">>

NoResult == [summary |-> None, error |-> None]
NoExhaust == [row |-> 0, cls |-> "", msg |-> <<>>]

\* the stores a run can find: each row pending or already summarized, the
\* derived columns present or (for a file fresh from the search tool) absent,
\* or ai_abstract alone present, with a summary in the first row
InitialDisks ==
    {[empty |-> FALSE, cols |-> Columns,
      rows |-> [i \in 1..MaxRows |-> [link |-> i, ai_abstract |-> c[i]]]]
        : c \in [1..MaxRows -> {<<>>, <<"old">>}]}
    \cup
    {[empty |-> FALSE, cols |-> k,
      rows |-> [i \in 1..MaxRows |-> [link |-> i, ai_abstract |-> <<>>]]]
        : k \in {{}, {"ai_summary"}}}
    \cup
    {[empty |-> FALSE, cols |-> {"ai_abstract"},
      rows |-> [i \in 1..MaxRows |->
                  [link |-> i,
                   ai_abstract |-> IF i = 1 THEN <<"old">> ELSE <<>>]]]}

Init ==
    /\ variant \in {"papers", "geo"}
    /\ run = 0
    /\ pc = "idle"
    /\ exitCode = -1
    /\ how = "none"
    /\ prev = "none"
    /\ resumeAfter = 0
    /\ disk \in InitialDisks
    /\ lastGood = disk
    /\ written = {}
    /\ df = EmptyFrame
    /\ pending = <<>>
    /\ loaded = EmptyFrame
    /\ counter = 0
    /\ attempt = 0
    /\ result = NoResult
    /\ afterSave = "none"
    /\ stamped = FALSE
    /\ sinceStamp = 0
    /\ gap = 0
    /\ nCalls = 0
    /\ lastCall = 0
    /\ recCalls = 0
    /\ recFirst = "none"
    /\ recAllQuota = TRUE
    /\ recSleeps = <<>>
    /\ exhaust = NoExhaust
    /\ ioFailed = FALSE
    /\ prompt = Template
    /\ waited = 0

\* process memory of a fresh or a dead process
ResetMemory ==
    /\ df' = EmptyFrame
    /\ pending' = <<>>
    /\ loaded' = EmptyFrame
    /\ counter' = 0
    /\ attempt' = 0
    /\ result' = NoResult
    /\ afterSave' = "none"
    /\ stamped' = FALSE
    /\ sinceStamp' = 0

ResetCalls ==
    /\ nCalls' = 0
    /\ lastCall' = 0
    /\ recCalls' = 0
    /\ recFirst' = "none"
    /\ recAllQuota' = TRUE
    /\ recSleeps' = <<>>
    /\ exhaust' = NoExhaust

Running == pc \notin {"idle", "exited"}

\* the process ends with status code for the given cause
Exit(code, cause) ==
    /\ pc' = "exited"
    /\ exitCode' = code
    /\ how' = cause

\* the record the loop is working on
Current == df.rows[pending[counter + 1]]

\* a new process is started on the store
StartRun ==
    /\ pc \in {"idle", "exited"}
    /\ run < MaxRuns
    /\ run' = run + 1
    /\ prev' = how
    /\ how' = "none"
    /\ exitCode' = -1
    /\ pc' = IF variant = "papers" THEN "probe" ELSE "main"
    /\ gap' = 0
    /\ ResetMemory
    /\ ResetCalls
    /\ resumeAfter' = IF how = "killed" THEN resumeAfter ELSE 0
    /\ lastGood' = disk
    /\ ioFailed' = FALSE
    /\ prompt' = Template
    /\ waited' = 0
    /\ UNCHANGED <<variant, disk, written>>

\* bookkeeping of one API call issued for the record with the given link
CountCall(link, cls) ==
    /\ nCalls' = nCalls + 1
    /\ lastCall' = link
    /\ recCalls' = IF lastCall = link THEN recCalls + 1 ELSE 1
    /\ recFirst' = IF lastCall = link THEN recFirst ELSE cls
    /\ recAllQuota' = ((lastCall = link => recAllQuota) /\ cls = "Quota")

\* df[column] = pd.Series(dtype='string'): the new column is all-null
AddColumnFresh(f, column) == [cols |-> f.cols \cup {column}, rows |-> <<>>]
AddColumn(f, column) ==
    [cols |-> f.cols \cup {column},
     rows |-> [i \in DOMAIN f.rows |->
                 IF column = "ai_abstract"
                 THEN [f.rows[i] EXCEPT !.ai_abstract = NaN]
                 ELSE f.rows[i]]]

\* ------------------------------------------------ summarize_papers.py
\* gemini.check_api_availability(): one unpaced request to the service
CheckApiAvailability(ok, lat) ==
    /\ variant = "papers"
    /\ pc = "probe"
    /\ nCalls' = nCalls + 1
    /\ gap' = Elapse(0, lat)
    /\ IF ok
       THEN pc' = "prepare" /\ UNCHANGED <<exitCode, how>>
       ELSE Exit(0, "unavailable")
    /\ UNCHANGED <<runVars, ioFailed, clientVars,
                   storeVars, memVars, stamped, sinceStamp,
                   lastCall, recCalls, recFirst, recAllQuota, recSleeps,
                   exhaust>>

\* prepare_csv(csv_file)
PrepareCsv ==
    /\ variant = "papers"
    /\ pc = "prepare"
    /\ ioFailed' = disk.empty
    /\ IF disk.empty
       THEN \* read_csv raises EmptyDataError, caught at the bottom
            /\ Exit(1, "exception")
            /\ UNCHANGED <<df, afterSave, lastGood>>
       ELSE /\ df' = [cols |-> Columns,
                      rows |-> IF "ai_abstract" \in disk.cols
                               THEN ReadCsv(disk).rows
                               ELSE AddColumn(ReadCsv(disk),
                                              "ai_abstract").rows]
            /\ lastGood' = disk
            /\ IF disk.cols # Columns
               THEN pc' = "save_open" /\ afterSave' = "select"
               ELSE pc' = "select" /\ UNCHANGED afterSave
            /\ UNCHANGED <<exitCode, how>>
    /\ UNCHANGED <<runVars, clientVars, disk, written, pending, loaded, counter,
                   attempt, result, clockVars, callVars>>

\* papers_to_summarize = df[df['ai_abstract'].isna()] and the empty check;
\* the geoscience script reads the file again first
LoadPending ==
    /\ pc = "select"
    /\ LET f == IF variant = "geo" THEN ReadCsv(disk) ELSE df
           p == IsNaRows(f, 1)
       IN /\ df' = f
          /\ pending' = p
          /\ loaded' = f
          /\ counter' = 0
          /\ IF p = <<>>
             THEN Exit(0, "nothing_pending")
             ELSE pc' = "loop" /\ UNCHANGED <<exitCode, how>>
    /\ UNCHANGED <<runVars, ioFailed, clientVars,
                   storeVars, attempt, result, afterSave,
                   clockVars, callVars>>

\* head of the for loop, and generate_summary up to its retry loop:
\* _wait_between_calls and the prompt check (the prompt is the filled-in
\* template, never empty)
NextPaper ==
    /\ variant = "papers"
    /\ pc = "loop"
    /\ IF counter >= Len(pending)
       THEN /\ Exit(0, "complete")
            /\ UNCHANGED <<attempt, recSleeps, exhaust, clockVars, waited>>
       ELSE /\ pc' = "attempt"
            /\ attempt' = 0
            /\ recSleeps' = <<>>
            /\ exhaust' = NoExhaust
            /\ waited' = WaitTime(stamped, sinceStamp)
            /\ gap' = Elapse(gap, WaitTime(stamped, sinceStamp))
            /\ stamped' = TRUE
            /\ sinceStamp' = 0
            /\ UNCHANGED <<exitCode, how>>
    /\ UNCHANGED <<runVars, ioFailed, prompt, storeVars, df, pending, loaded,
                   counter, result, afterSave, nCalls, lastCall, recCalls,
                   recFirst, recAllQuota>>

\* what one pass of generate_summary's retry loop does with the outcome o of
\* model.generate_content at attempt n
GenerateSummaryStep(o, n) ==
    CASE o.cls = "Success" ->
           [done |-> TRUE, sleep |-> 0,
            summary |-> Strip(o.text), error |-> None]
      [] o.cls = "Blocked" ->
           [done |-> TRUE, sleep |-> 0,
            summary |-> None, error |-> <<"Response blocked:">> \o o.text]
      [] o.cls = "Invalid" ->
           [done |-> TRUE, sleep |-> 0,
            summary |-> None,
            error |-> <<"Invalid argument error:">> \o o.text]
      [] o.cls = "Quota" ->
           IF n < MAX_RETRIES - 1
           THEN [done |-> FALSE, sleep |-> Backoff(n),
                 summary |-> None, error |-> None]
           ELSE [done |-> TRUE, sleep |-> 0,
                 summary |-> None, error |-> <<"Rate limit exceeded">>]
      [] o.cls = "Transient" ->
           IF n < MAX_RETRIES - 1
           THEN [done |-> FALSE, sleep |-> Backoff(n),
                 summary |-> None, error |-> None]
           ELSE [done |-> TRUE, sleep |-> 0,
                 summary |-> None, error |-> o.text]

Retryable(cls) == cls \in {"Quota", "Transient"}

\* one pass of the retry loop of generate_summary: the request, the handling
\* of its outcome and the backoff sleep
GenerateContent(o, lat) ==
    /\ variant = "papers"
    /\ pc = "attempt"
    /\ nCalls < MaxCalls
    /\ LET s == GenerateSummaryStep(o, attempt)
       IN /\ CountCall(Current.link, o.cls)
          /\ gap' = Elapse(0, lat + s.sleep)
          /\ sinceStamp' = Elapse(sinceStamp, lat + s.sleep)
          /\ IF s.done
             THEN /\ pc' = "apply"
                  /\ result' = [summary |-> s.summary, error |-> s.error]
                  /\ exhaust' = IF Retryable(o.cls)
                                THEN [row |-> Current.link, cls |-> o.cls,
                                      msg |-> s.error]
                                ELSE exhaust
                  /\ UNCHANGED <<attempt, recSleeps>>
             ELSE /\ attempt' = attempt + 1
                  /\ recSleeps' = Append(recSleeps, s.sleep)
                  /\ UNCHANGED <<pc, result, exhaust>>
    /\ UNCHANGED <<runVars, ioFailed, clientVars,
                   storeVars, exitCode, how, df, pending, loaded, counter,
                   afterSave, stamped>>

\* the branch of the for loop on (summary, error), up to the to_csv
ApplyResult ==
    /\ variant = "papers"
    /\ pc = "apply"
    /\ IF Truthy(result.error)
       THEN /\ df' = SetAbstract(df, Current.link,
                                 <<"Error:">> \o result.error)
            /\ pc' = "save_open"
            /\ afterSave' = IF StartsWith(result.error, "FATAL:")
                            THEN "exit1" ELSE "next"
            /\ UNCHANGED <<exitCode, how>>
       ELSE /\ df' = SetAbstract(df, Current.link,
                                 IF result.summary = None
                                 THEN NaN ELSE result.summary)
            /\ IF result.summary = None
               THEN \* summary[:200] raises TypeError, caught at the bottom
                    Exit(1, "exception") /\ UNCHANGED afterSave
               ELSE /\ pc' = "save_open"
                    /\ afterSave' = "next"
                    /\ UNCHANGED <<exitCode, how>>
    /\ UNCHANGED <<runVars, ioFailed, clientVars,
                   storeVars, pending, loaded, counter, attempt, result,
                   clockVars, callVars>>

\* ------------------------------------------------------------ df.to_csv
\* the file is opened for writing, which truncates it
ToCsvOpen ==
    /\ pc = "save_open"
    /\ disk' = Truncated
    /\ pc' = "save_write"
    /\ UNCHANGED <<runVars, ioFailed, clientVars,
                   exitCode, how, lastGood, written, memVars,
                   clockVars, callVars>>

\* the frame is written and the file closed; then what follows the to_csv
\* in the code that called it
ToCsvWrite ==
    /\ pc = "save_write"
    /\ disk' = ToCsv(df)
    /\ lastGood' = ToCsv(df)
    /\ written' = IF afterSave \in {"select", "main2"}
                  THEN written ELSE written \cup {Current.link}
    /\ afterSave' = "none"
    /\ CASE afterSave \in {"select", "main2"} ->
              /\ pc' = afterSave
              /\ UNCHANGED <<exitCode, how, counter, clockVars>>
         [] afterSave = "next" ->
              /\ pc' = "loop"
              /\ counter' = counter + 1
              /\ UNCHANGED <<exitCode, how, clockVars>>
         [] afterSave \in {"again", "again_try"} ->
              /\ pc' = "loop"
              /\ UNCHANGED <<exitCode, how, counter, clockVars>>
         [] afterSave = "success" ->
              /\ pc' = "loop"
              /\ counter' = counter + 1
              /\ gap' = Elapse(gap, IF Len(pending) > 1
                                    THEN RETRY_DELAY ELSE 0)
              /\ UNCHANGED <<exitCode, how, stamped, sinceStamp>>
         [] afterSave = "exit1" ->
              /\ Exit(1, "fatal")
              /\ UNCHANGED <<counter, clockVars>>
    /\ UNCHANGED <<runVars, ioFailed, clientVars,
                   df, pending, loaded, attempt, result, callVars>>

\* what a to_csv cut short can leave in the file: nothing, or the header and
\* the rows flushed so far
CrashFiles ==
    IF pc = "save_write"
    THEN {Truncated}
         \cup {[ToCsv(df) EXCEPT !.rows = SubSeq(ToCsv(df).rows, 1, k)] :
                  k \in 0..(Len(df.rows) - 1)}
    ELSE {disk}

\* the message of the OSError a failed write raises
WriteErrorMsg == <<"EIO">>

\* the to_csv calls of the geoscience script that are inside its try block
InTry == variant = "geo" /\ afterSave \in {"success", "again_try"}

\* df.to_csv raises: the file cannot be opened for writing, or the write
\* fails after the open truncated it.  summarize_papers.py catches it at the
\* bottom and exits 1; nothing catches it in the geoscience script, except
\* inside its try block, where the handler of unexpected errors takes it for
\* a failed attempt
ToCsvFail ==
    /\ pc \in {"save_open", "save_write"}
    /\ disk' \in CrashFiles
    /\ ioFailed' = TRUE
    /\ IF InTry
       THEN /\ UNCHANGED <<exitCode, how>>
            /\ IF attempt < MAX_RETRIES - 1
               THEN /\ pc' = "attempt"
                    /\ attempt' = attempt + 1
                    /\ afterSave' = "none"
                    /\ recSleeps' = Append(recSleeps, Backoff(attempt))
                    /\ gap' = Elapse(gap, Backoff(attempt))
                    /\ UNCHANGED <<df, exhaust>>
               ELSE /\ df' = SetAbstract(df, Current.link,
                                         <<"Error:">> \o WriteErrorMsg)
                    /\ pc' = "save_open"
                    /\ afterSave' = "again"
                    /\ exhaust' = [row |-> Current.link, cls |-> "Transient",
                                   msg |-> WriteErrorMsg]
                    /\ UNCHANGED <<attempt, recSleeps, gap>>
       ELSE /\ Exit(1, "exception")
            /\ UNCHANGED <<df, attempt, afterSave, recSleeps, exhaust, gap>>
    /\ UNCHANGED <<runVars, clientVars, lastGood, written, pending, loaded,
                   counter, result, stamped, sinceStamp, nCalls, lastCall,
                   recCalls, recFirst, recAllQuota>>

\* ------------------------------------- summarize_geoscience_papers.py
\* __main__: read the file, ensure the ai_abstract column
MainEnsureAbstract ==
    /\ variant = "geo"
    /\ pc = "main"
    /\ ioFailed' = disk.empty
    /\ IF disk.empty
       THEN \* read_csv raises EmptyDataError, which nothing catches
            /\ Exit(1, "exception")
            /\ UNCHANGED <<df, afterSave, lastGood>>
       ELSE /\ lastGood' = disk
            /\ UNCHANGED <<exitCode, how>>
            /\ IF "ai_abstract" \notin disk.cols
               THEN /\ df' = AddColumn(ReadCsv(disk), "ai_abstract")
                    /\ pc' = "save_open"
                    /\ afterSave' = "main2"
               ELSE /\ df' = ReadCsv(disk)
                    /\ pc' = "main2"
                    /\ UNCHANGED afterSave
    /\ UNCHANGED <<runVars, clientVars, disk, written, pending, loaded, counter,
                   attempt, result, clockVars, callVars>>

\* __main__: ensure the ai_summary column, then call summarize_papers
MainEnsureSummary ==
    /\ variant = "geo"
    /\ pc = "main2"
    /\ IF "ai_summary" \notin df.cols
       THEN /\ df' = AddColumn(df, "ai_summary")
            /\ pc' = "save_open"
            /\ afterSave' = "select"
       ELSE /\ pc' = "select"
            /\ UNCHANGED <<df, afterSave>>
    /\ UNCHANGED <<runVars, ioFailed, clientVars,
                   storeVars, exitCode, how, pending, loaded, counter,
                   attempt, result, clockVars, callVars>>

\* head of the while loop: papers_to_summarize.iloc[counter] raises
\* IndexError once counter has passed the last pending row
GeoNextPaper ==
    /\ variant = "geo"
    /\ pc = "loop"
    /\ IF counter >= Len(pending)
       THEN /\ Exit(1, "index_error")
            /\ UNCHANGED <<attempt, recSleeps, exhaust>>
       ELSE /\ pc' = "attempt"
            /\ attempt' = 0
            /\ recSleeps' = <<>>
            /\ exhaust' = NoExhaust
            /\ UNCHANGED <<exitCode, how>>
    /\ UNCHANGED <<runVars, ioFailed, clientVars,
                   storeVars, df, pending, loaded, counter, result,
                   afterSave, clockVars, nCalls, lastCall, recCalls,
                   recFirst, recAllQuota>>

\* what one pass of the script's retry loop does with the outcome o at
\* attempt n: the cell it writes (mark) and what follows the write ("again":
\* the while loop takes the same record again; "again_try": the same, for a
\* write inside the try block)
GeoStep(o, n) ==
    CASE o.cls = "Success" ->
           [done |-> TRUE, sleep |-> 0, mark |-> Strip(o.text),
            then |-> "success"]
      [] o.cls = "Blocked" ->
           [done |-> TRUE, sleep |-> 0,
            mark |-> <<"Error:", "Response blocked:">> \o o.text,
            then |-> "again_try"]
      [] o.cls = "Invalid" ->
           [done |-> TRUE, sleep |-> 0,
            mark |-> <<"Error:", "Invalid argument error:">> \o o.text,
            then |-> "again"]
      [] o.cls = "Quota" ->
           IF n < MAX_RETRIES - 1
           THEN [done |-> FALSE, sleep |-> Backoff(n), mark |-> None,
                 then |-> "none"]
           ELSE [done |-> TRUE, sleep |-> 0,
                 mark |-> <<"Error:", "Rate limit exceeded">>,
                 then |-> "exit1"]
      [] o.cls = "Transient" ->
           IF n < MAX_RETRIES - 1
           THEN [done |-> FALSE, sleep |-> Backoff(n), mark |-> None,
                 then |-> "none"]
           ELSE [done |-> TRUE, sleep |-> 0,
                 mark |-> <<"Error:">> \o o.text,
                 then |-> "again"]

\* one pass of the script's retry loop: the request, the handling of its
\* outcome up to the to_csv, or the backoff sleep
GeoGenerateContent(o, lat) ==
    /\ variant = "geo"
    /\ pc = "attempt"
    /\ nCalls < MaxCalls
    /\ LET s == GeoStep(o, attempt)
       IN /\ CountCall(Current.link, o.cls)
          /\ gap' = Elapse(0, lat + s.sleep)
          /\ IF s.done
             THEN /\ df' = SetAbstract(df, Current.link, s.mark)
                  /\ pc' = "save_open"
                  /\ afterSave' = s.then
                  /\ exhaust' = IF Retryable(o.cls)
                                THEN [row |-> Current.link, cls |-> o.cls,
                                      msg |-> IF o.cls = "Quota"
                                              THEN <<"Rate limit exceeded">>
                                              ELSE o.text]
                                ELSE exhaust
                  /\ UNCHANGED <<attempt, recSleeps>>
             ELSE /\ attempt' = attempt + 1
                  /\ recSleeps' = Append(recSleeps, s.sleep)
                  /\ UNCHANGED <<df, pc, afterSave, exhaust>>
    /\ UNCHANGED <<runVars, ioFailed, clientVars,
                   storeVars, exitCode, how, pending, loaded, counter,
                   result, stamped, sinceStamp>>

\* ------------------------------------------------------------ interrupt
\* the process is killed (a process-level interrupt, a power loss)
Kill ==
    /\ Running
    /\ disk' \in CrashFiles
    /\ pc' = "exited"
    /\ exitCode' = 137
    /\ how' = "killed"
    /\ resumeAfter' = IF pc = "loop" THEN lastCall ELSE 0
    /\ gap' = 0
    /\ ResetMemory
    /\ ResetCalls
    /\ ioFailed' = FALSE
    /\ prompt' = Template
    /\ waited' = 0
    /\ UNCHANGED <<variant, run, prev, lastGood, written>>

Next ==
    \/ StartRun
    \/ \E ok \in BOOLEAN, lat \in Latencies : CheckApiAvailability(ok, lat)
    \/ PrepareCsv
    \/ LoadPending
    \/ NextPaper
    \/ \E o \in Outcomes, lat \in Latencies : GenerateContent(o, lat)
    \/ ApplyResult
    \/ ToCsvOpen
    \/ ToCsvWrite
    \/ MainEnsureAbstract
    \/ MainEnsureSummary
    \/ GeoNextPaper
    \/ \E o \in Outcomes, lat \in Latencies : GeoGenerateContent(o, lat)
    \/ Kill

Spec == Init /\ [][Next]_vars

\* the same program on a file system whose writes can fail
NextIO ==
    \/ Next
    \/ ToCsvFail

SpecIO == Init /\ [][NextIO]_vars

\* ---------------------------------------------- gemini_api.GeminiAPI
\* The client on its own, called by any caller with any argument.

\* a prompt that is not a string
NonText == <<"<int>">>

\* arguments a caller can pass to generate_summary
Prompts == {Template, <<>>, NonText}

\* prompt and isinstance(prompt, str)
ValidPrompt(p) == Truthy(p) /\ p # NonText

InvalidPromptMsg == <<"Invalid prompt: prompt must be a non-empty string">>

\* times a caller spends between two calls of generate_summary
IdleTimes == {Latency, 2 * Latency}

\* what the scripts keep and the client does not touch
orchVars == <<variant, run, exitCode, how, prev, resumeAfter, disk, lastGood,
              written, df, pending, loaded, counter, afterSave, lastCall,
              recCalls, recFirst, recAllQuota, exhaust, ioFailed>>

\* a GeminiAPI object right after __init__, in a process that holds no store
ClientInit ==
    /\ variant = "papers"
    /\ run = 1
    /\ pc = "client"
    /\ exitCode = -1
    /\ how = "none"
    /\ prev = "none"
    /\ resumeAfter = 0
    /\ disk = Truncated
    /\ lastGood = Truncated
    /\ written = {}
    /\ df = EmptyFrame
    /\ pending = <<>>
    /\ loaded = EmptyFrame
    /\ counter = 0
    /\ attempt = 0
    /\ result = NoResult
    /\ afterSave = "none"
    /\ stamped = FALSE
    /\ sinceStamp = 0
    /\ gap = 0
    /\ nCalls = 0
    /\ lastCall = 0
    /\ recCalls = 0
    /\ recFirst = "none"
    /\ recAllQuota = TRUE
    /\ recSleeps = <<>>
    /\ exhaust = NoExhaust
    /\ ioFailed = FALSE
    /\ prompt = Template
    /\ waited = 0

\* the caller does something else for d seconds
ClientIdle(d) ==
    /\ pc = "client"
    /\ sinceStamp < WAIT_BETWEEN_CALLS
    /\ sinceStamp' = Elapse(sinceStamp, d)
    /\ gap' = Elapse(gap, d)
    /\ UNCHANGED <<orchVars, pc, attempt, result, stamped, nCalls,
                   recSleeps, clientVars>>

\* generate_summary(p) is entered: _wait_between_calls sleeps as needed and
\* records the time
WaitBetweenCalls(p) ==
    /\ pc = "client"
    /\ prompt' = p
    /\ waited' = WaitTime(stamped, sinceStamp)
    /\ gap' = Elapse(gap, WaitTime(stamped, sinceStamp))
    /\ stamped' = TRUE
    /\ sinceStamp' = 0
    /\ pc' = "paced"
    /\ UNCHANGED <<orchVars, attempt, result, nCalls, recSleeps>>

\* generate_summary: the check of the prompt
ValidatePrompt ==
    /\ pc = "paced"
    /\ IF ValidPrompt(prompt)
       THEN /\ pc' = "retry"
            /\ attempt' = 0
            /\ recSleeps' = <<>>
            /\ UNCHANGED result
       ELSE /\ pc' = "client"
            /\ result' = [summary |-> None, error |-> InvalidPromptMsg]
            /\ UNCHANGED <<attempt, recSleeps>>
    /\ UNCHANGED <<orchVars, clockVars, nCalls, clientVars>>

\* generate_summary: one pass of the retry loop
ClientGenerateContent(o, lat) ==
    /\ pc = "retry"
    /\ nCalls < MaxCalls
    /\ nCalls' = nCalls + 1
    /\ LET s == GenerateSummaryStep(o, attempt)
       IN /\ gap' = Elapse(0, lat + s.sleep)
          /\ sinceStamp' = Elapse(sinceStamp, lat + s.sleep)
          /\ IF s.done
             THEN /\ pc' = "client"
                  /\ result' = [summary |-> s.summary, error |-> s.error]
                  /\ UNCHANGED <<attempt, recSleeps>>
             ELSE /\ attempt' = attempt + 1
                  /\ recSleeps' = Append(recSleeps, s.sleep)
                  /\ UNCHANGED <<pc, result>>
    /\ UNCHANGED <<orchVars, stamped, clientVars>>

ClientNext ==
    \/ \E d \in IdleTimes : ClientIdle(d)
    \/ \E p \in Prompts : WaitBetweenCalls(p)
    \/ ValidatePrompt
    \/ \E o \in Outcomes, lat \in Latencies : ClientGenerateContent(o, lat)

ClientSpec == ClientInit /\ [][ClientNext]_vars

\* the retry loop is working on the record of the latest API call
Attempting == pc = "attempt" /\ Current.link = lastCall

\* the retry loop of the record of the latest API call is running or was
\* the last one to run
LoopInView == pc = "attempt" => Attempting

\* ------------------------------------------------------------------ C5
\* C5: a record whose every attempt so far was rejected with QuotaExceeded
\* has received at most MAX_RETRIES calls; the sleeps between its attempts
\* are RETRY_DELAY*1, RETRY_DELAY*2, ...; below MAX_RETRIES calls the retry
\* loop is still attempting it, and with MAX_RETRIES calls the budget is
\* recorded as exhausted and the record is not attempted again.
RetryBudget ==
    (how # "killed" /\ lastCall # 0 /\ recAllQuota) =>
        /\ recCalls \in 1..MAX_RETRIES
        /\ recCalls < MAX_RETRIES => Attempting
        /\ recCalls = MAX_RETRIES => ~Attempting
        /\ LoopInView =>
              /\ recSleeps = [i \in 1..Min(recCalls, MAX_RETRIES - 1) |->
                                RETRY_DELAY * i]
              /\ recCalls = MAX_RETRIES =>
                     (exhaust.row = lastCall /\ exhaust.cls = "Quota")

RetryBudgetWitness ==
    /\ lastCall # 0
    /\ recAllQuota
    /\ recCalls = MAX_RETRIES
    /\ recSleeps = <<RETRY_DELAY, RETRY_DELAY * 2>>
    /\ exhaust.cls = "Quota"
    /\ pc = "exited"
    /\ how # "killed"

\* the ai_abstract field of the row with the given link in a file
FieldOf(d, link) ==
    LET i == CHOOSE j \in DOMAIN d.rows : d.rows[j].link = link
    IN d.rows[i].ai_abstract

\* ------------------------------------------------------------------ C1
\* C1: in the run that follows a run killed right after the store write for
\* row i (resumeAfter = i), every API call issued for a record is for a row
\* after row i.
Resumption ==
    (resumeAfter # 0 /\ lastCall # 0) => lastCall > resumeAfter

\* ------------------------------------------------------------------ C2
\* C2: a run that follows a run which ran to its end, on the same store,
\* issues no API call at all.
Idempotence ==
    (run >= 2 /\ prev \in {"complete", "index_error", "nothing_pending"})
        => nCalls = 0

\* ------------------------------------------------------------------ C3
\* C3: whenever the process is killed, the file the next run reads is the
\* store as of the last completed write (the update either not applied or
\* fully applied), so every ai_abstract persisted before is still there.
CheckpointAtomic ==
    how = "killed" =>
        /\ disk = lastGood
        /\ \A l \in written :
              /\ \E j \in DOMAIN disk.rows : disk.rows[j].link = l
              /\ FieldOf(disk, l) = FieldOf(lastGood, l)

\* ------------------------------------------------------------------ C4
\* C4: every API call of a run but the first starts at least
\* WAIT_BETWEEN_CALLS after the start of the call before it.
Pacing ==
    [][(nCalls' = nCalls + 1 /\ nCalls >= 1) => gap >= WAIT_BETWEEN_CALLS]_vars

\* ------------------------------------------------------------------ C6
\* C6: once a record's last allowed attempt was rejected with QuotaExceeded,
\* the loop is not entered again (no other record is processed), and the
\* process ends with a non-zero status, the row marked with the error and
\* persisted, and every later pending row still null.
QuotaFatal ==
    (how # "killed" /\ exhaust.cls = "Quota") =>
        /\ lastCall = exhaust.row
        /\ pc # "loop"
        /\ pc = "exited" =>
              /\ exitCode = 1
              /\ FieldOf(disk, exhaust.row) = <<"Error:">> \o exhaust.msg
              /\ \A j \in DOMAIN pending :
                    df.rows[pending[j]].link > exhaust.row
                        => FieldOf(disk, df.rows[pending[j]].link) = <<>>

\* ------------------------------------------------------------------ C7
\* C7: a record whose first attempt returned Blocked or InvalidInput has
\* received exactly one API call.
NoRetryClasses ==
    (how # "killed" /\ lastCall # 0 /\ recFirst \in {"Blocked", "Invalid"})
        => recCalls = 1

\* ------------------------------------------------------------------ C8
\* C8: once a record's last allowed attempt failed with a Transient error,
\* its row is marked "Error: " + reason and persisted, the loop goes on with
\* the next pending record, and the process does not exit on account of it
\* (it ends only by completing the loop).
TransientRowLevel ==
    (how # "killed" /\ exhaust.cls = "Transient") =>
        /\ pc \in {"loop", "exited"} =>
              FieldOf(disk, exhaust.row) = <<"Error:">> \o exhaust.msg
        /\ pc = "loop" =>
              (counter >= Len(pending) \/ Current.link # exhaust.row)
        /\ pc = "exited" => (how = "complete" /\ exitCode = 0)

\* ------------------------------------------------------------------ C9
\* C9: a run that entered its loop and did not end on a quota exhaustion
\* ends with status 0, every initially pending row holding a summary or an
\* "Error:" marker, all of it persisted.
RowFailuresContinue ==
    (pc = "exited" /\ how # "killed" /\ pending # <<>>
     /\ exhaust.cls # "Quota") =>
        /\ exitCode = 0
        /\ disk = ToCsv(df)
        /\ \A j \in DOMAIN pending :
              df.rows[pending[j]].ai_abstract \notin {NaN, None}

\* ------------------------------------------------------------------ C10
\* C10: no API call is issued for a row whose ai_abstract a run has already
\* persisted, in the same run or in a later one.
NoDuplicateCalls ==
    [][(nCalls' = nCalls + 1 /\ lastCall' # 0) => lastCall' \notin written]_vars

\* API calls issued for records by this execution (all but the probe)
RecordCalls == IF variant = "papers" THEN nCalls - 1 ELSE nCalls

\* ------------------------------------------------------------------ C11
\* C11: a record receives at most MAX_RETRIES API calls from an execution,
\* and an execution issues at most (pending records) x MAX_RETRIES calls for
\* its records.
RetriesBounded ==
    (how # "killed" /\ lastCall # 0) =>
        /\ recCalls <= MAX_RETRIES
        /\ RecordCalls <= Len(pending) * MAX_RETRIES

\* ------------------------------------------------------------------ C12
\* C12: an execution that ends with status 0 leaves no record with a null
\* ai_abstract in the store, and an execution that exhausted a quota retry
\* budget, met a storage failure or an unhandled exception ends with a
\* non-zero status.
ExitStatus ==
    (pc = "exited" /\ how # "killed") =>
        /\ exitCode = 0 =>
              /\ ~disk.empty
              /\ \A i \in DOMAIN disk.rows :
                    ReadCsvField(disk.rows[i].ai_abstract) # NaN
        /\ (exhaust.cls = "Quota" \/ ioFailed
            \/ how \in {"exception", "index_error"}) => exitCode # 0

\* ------------------------------------------------------------------ C13
\* C13: once a read or a write of the store has failed, the execution has
\* ended with a non-zero status: the failure is not retried, not recorded as
\* a row-level failure, and no API call follows it.
StorageFatal ==
    ioFailed => (pc = "exited" /\ exitCode # 0)

\* file b holds the rows of file a, in the same order and with the columns of
\* a, and the same ai_abstract (as read) in every row but those of the links
SameBut(a, b, links) ==
    /\ ~b.empty
    /\ a.cols \subseteq b.cols
    /\ Len(b.rows) = Len(a.rows)
    /\ \A i \in DOMAIN a.rows :
          /\ b.rows[i].link = a.rows[i].link
          /\ a.rows[i].link \notin links =>
                ReadCsvField(b.rows[i].ai_abstract)
                    = ReadCsvField(a.rows[i].ai_abstract)

\* the to_csv in progress persists the outcome of the current record
RowSave == pc = "save_write" /\ afterSave \notin {"select", "main2"}

\* ------------------------------------------------------------------ C14
\* C14: whatever an execution does to the file (a completed write, or a
\* write cut short when the execution ends), the file keeps the rows it had
\* when last read or written, in the same order, with only the ai_abstract
\* of the record being processed changed.
FrameKept ==
    [][pc' # "save_write" =>
          SameBut(lastGood, disk', IF RowSave THEN {Current.link} ELSE {})]_vars

\* ------------------------------------------------------------------ C15
\* C15: every API call for a record is for a record whose ai_abstract was
\* null in the store as loaded, and the first call of each retry loop is for
\* a record that comes later in the store than the record of the call before
\* (links number the rows in store order); the other calls of a retry loop
\* are for the same record.
SelectionOrder ==
    [][(nCalls' = nCalls + 1 /\ lastCall' # 0) =>
          /\ \E i \in DOMAIN loaded.rows :
                /\ loaded.rows[i].link = lastCall'
                /\ loaded.rows[i].ai_abstract = NaN
          /\ IF attempt = 0
             THEN lastCall' > lastCall
             ELSE lastCall' = lastCall]_vars

\* a to_csv of ensure_schema (prepare_csv, or the head of __main__) is due or
\* in progress
SchemaWrite ==
    pc \in {"save_open", "save_write"} /\ afterSave \in {"select", "main2"}

\* ------------------------------------------------------------------ C16
\* C16: ensure_schema writes the store only when the file it read lacks a
\* column (so a second pass writes nothing); what it writes has that file's
\* columns and more, the same rows with the same data, and an added
\* ai_abstract column all-null; once it has run, the file has both columns
\* and holds the same data as the frame.
EnsureSchema ==
    /\ SchemaWrite =>
          /\ lastGood.cols # Columns
          /\ lastGood.cols \subseteq df.cols
          /\ lastGood.cols # df.cols
          /\ SameBut(lastGood, ToCsv(df), {})
          /\ "ai_abstract" \notin lastGood.cols =>
                \A i \in DOMAIN df.rows : df.rows[i].ai_abstract = NaN
    /\ pc = "select" =>
          /\ disk.cols = Columns
          /\ SameBut(ToCsv(df), disk, {})

\* a file fresh from the search tool: the geoscience script has written the
\* ai_abstract column and is writing the ai_summary column
EnsureSchemaWitness ==
    /\ variant = "geo"
    /\ run = 1
    /\ pc = "save_write"
    /\ afterSave = "select"
    /\ lastGood.cols = {"ai_abstract"}
    /\ lastGood.rows[1].ai_abstract = <<>>
    /\ df.cols = Columns
    /\ df.rows[1].ai_abstract = NaN

\* ------------------------------------------------------------------ C17
\* C17: generate_summary called with an empty or non-text prompt returns the
\* invalid-prompt error without a request to the service, and the pacing
\* wait it went through before the check did not sleep.
InputValidation ==
    [][(pc = "paced" /\ ~ValidPrompt(prompt)) =>
          /\ pc' = "client"
          /\ result' = [summary |-> None, error |-> InvalidPromptMsg]
          /\ nCalls' = nCalls
          /\ waited = 0]_vars

\* ------------------------------------------------------------------ C18
\* C18: _wait_between_calls does not sleep the first time it is invoked in a
\* process; every later time it returns no earlier than WAIT_BETWEEN_CALLS
\* after the time the invocation before recorded; and every time it records
\* the time of its own return.
PacingController ==
    [][(pc = "client" /\ pc' = "paced") =>
          /\ ~stamped => waited' = 0
          /\ stamped => sinceStamp + waited' >= WAIT_BETWEEN_CALLS
          /\ stamped'
          /\ sinceStamp' = 0]_vars

\* a later invocation, entered Latency after the one before, has slept the
\* rest of the interval
PacingControllerWitness ==
    /\ pc = "paced"
    /\ nCalls >= 1
    /\ waited = WAIT_BETWEEN_CALLS - Latency
    /\ stamped
    /\ sinceStamp = 0

\* the file holds the row of the given link with the cell c as to_csv writes it
Persisted(d, link, c) ==
    \E i \in DOMAIN d.rows :
        d.rows[i].link = link /\ d.rows[i].ai_abstract = ToCsvField(c)

\* ------------------------------------------------------------------ C19
\* C19: when an API call for a record starts, the file holds, for every
\* record the execution has finished before, the ai_abstract it gave it.
CheckpointBeforeCall ==
    [][(nCalls' = nCalls + 1 /\ lastCall' # 0) =>
          \A j \in 1..counter :
              Persisted(disk, df.rows[pending[j]].link,
                        df.rows[pending[j]].ai_abstract)]_vars

\* the links of the records a run that reads file d takes as pending
PendingLinks(d) ==
    LET f == ReadCsv(d)
        p == IsNaRows(f, 1)
    IN {f.rows[p[j]].link : j \in DOMAIN p}

\* the to_csv in progress persists a summary the client returned
SummarySave ==
    /\ pc = "save_write"
    /\ \/ afterSave = "success"
       \/ variant = "papers" /\ afterSave = "next" /\ ~Truthy(result.error)

\* ------------------------------------------------------------------ C20
\* C20: once the write that persists a record's summary has completed, a
\* run that reads the file does not take the record as pending.
SummaryStaysWritten ==
    [][(SummarySave /\ pc' = "loop") =>
          Current.link \notin PendingLinks(disk')]_vars

\* the ai_abstract cell of the row with the given link in a frame
CellOf(f, link) ==
    LET i == CHOOSE j \in DOMAIN f.rows : f.rows[j].link = link
    IN f.rows[i].ai_abstract

\* ------------------------------------------------------------------ C21
\* C21: when generate_summary has returned no summary (a failure, whatever
\* its message), the loop marks the row "Error: " + message and goes on to
\* persist it; it stores a summary in the row only when generate_summary
\* returned one.
Classification ==
    [][(pc = "apply" /\ how' # "killed") =>
          IF result.summary = None
          THEN /\ pc' = "save_open"
               /\ CellOf(df', Current.link) = <<"Error:">> \o result.error
          ELSE /\ pc' = "save_open"
               /\ CellOf(df', Current.link) = result.summary]_vars

====
